---- MODULE Spec2Model ----
(***************************************************************************)
(* Model of the Netflix recommendation service.                            *)
(*                                                                         *)
(* Part I  : the ratings-based route get_recommendations of app/main.py    *)
(*           over the store of users, movies and ratings.                  *)
(* Part II : the vector-based RecommendationService of                     *)
(*           app/services/recommendation.py.                               *)
(***************************************************************************)
EXTENDS Integers, Sequences, FiniteSets, TLC

VARIABLES
    deployment, \* "ratings" (app/main.py), "vectors" (the service) or "codec"
    \* the ratings deployment
    nUsers,     \* users table: ids 1..nUsers (autoincrement primary key)
    nMovies,    \* movies table: ids 1..nMovies, returned in id order
    ratings,    \* ratings table: rows [user_id, movie_id, rating] in insertion order
    budget,     \* write requests still allowed (bounds the run)
    call,       \* the last answered GET /recommendations/, or NoCall
    \* the vectors deployment
    svcUsers,   \* users: id -> [watched, preference_vector]
    svcMovies,  \* movies: id -> feature_vector
    scaler,     \* recommendation_service.scaler and ._is_fitted
    svcCall,    \* the last answer of the service, until the caller takes it
    \* the vector codec on its own
    vector_str, \* a vector text
    decoded,    \* the array decoded from it
    \* concurrent calls of the service
    pc,         \* where each call stands
    tUser,      \* the user of each call
    fitCount    \* how many times scaler.fit was entered

routeVars == <<nUsers, nMovies, ratings, budget, call>>
svcVars == <<svcUsers, svcMovies, scaler, svcCall>>
codecVars == <<vector_str, decoded>>
threadVars == <<pc, tUser, fitCount>>
vars == <<deployment, routeVars, svcVars, codecVars, threadVars>>

----------------------------------------------------------------------------
(* Program constants *)
TopN == 5              \* sorted_movies[:5], recommended_movies[:5]
TopK == 3              \* sorted(similarities...)[:3]
LikeThreshold == 4     \* user_ratings[user_id][movie_id] >= 4.0

(* Bounds *)
MaxOps == 5            \* write requests on an initially empty database
RatingValues == {0, 3, 4}   \* the ratings a request may carry

----------------------------------------------------------------------------
(* Generic helpers *)

RECURSIVE SumSeq(_)
SumSeq(s) == IF s = <<>> THEN 0 ELSE Head(s) + SumSeq(Tail(s))

MinOf(S) == CHOOSE x \in S : \A y \in S : x <= y
MaxOf(S) == CHOOSE x \in S : \A y \in S : x >= y

Range(s) == {s[i] : i \in 1..Len(s)}

RECURSIVE SelectSeqIn(_, _)
\* the subsequence of s whose elements lie in S
SelectSeqIn(s, S) ==
    IF s = <<>> THEN <<>>
    ELSE IF Head(s) \in S THEN <<Head(s)>> \o SelectSeqIn(Tail(s), S)
    ELSE SelectSeqIn(Tail(s), S)

Take(s, n) == IF n >= Len(s) THEN s ELSE SubSeq(s, 1, n)

\* the ascending (or descending) enumeration of a finite set of integers
RECURSIVE AscSeq(_)
AscSeq(S) == IF S = {} THEN <<>> ELSE <<MinOf(S)>> \o AscSeq(S \ {MinOf(S)})
RECURSIVE DescSeq(_)
DescSeq(S) == IF S = {} THEN <<>> ELSE <<MaxOf(S)>> \o DescSeq(S \ {MaxOf(S)})

----------------------------------------------------------------------------
(* The store as the route reads it *)

Rating(u, m, v) == [user_id |-> u, movie_id |-> m, rating |-> v]

\* a movie the user has no rating for (ratings in the model are not negative)
None == -1

\* movies = db.query(models.Movie).all()
movies == [i \in 1..nMovies |-> i]

\* every movie id a ratings row may carry
MovieIds == 1..(nMovies + 1)

\* the rows of one user / of one movie, as sets of row numbers
RowsOfUser(u) == {i \in 1..Len(ratings) : ratings[i].user_id = u}
RowsOfMovie(m) == {i \in 1..Len(ratings) : ratings[i].movie_id = m}

\* user_ratings = {}; for rating in ratings: ...  The dictionary is the pair
\* of its keys in insertion order and its values; a later row of the same
\* user and movie overwrites the earlier one
RECURSIVE BuildUserRatings(_, _)
BuildUserRatings(acc, rows) ==
    IF rows = <<>> THEN acc
    ELSE LET r == Head(rows)
         IN BuildUserRatings(
                [keys |-> IF r.user_id \in Range(acc.keys) THEN acc.keys
                          ELSE Append(acc.keys, r.user_id),
                 val  |-> [acc.val EXCEPT ![r.user_id][r.movie_id] = r.rating]],
                Tail(rows))
user_ratings ==
    BuildUserRatings([keys |-> <<>>,
                      val  |-> [u \in 1..nUsers |-> [m \in MovieIds |-> None]]],
                     ratings)

\* set(user_ratings[u].keys())
RatedKeys(ur, u) == {m \in MovieIds : ur.val[u][m] # None}

\* current_user_rated_movie_ids
current_user_rated_movie_ids(ur, cu) ==
    IF cu \in Range(ur.keys) THEN RatedKeys(ur, cu) ELSE {}

\* unrated_movies
\* without the filter on the user's rated movies
unrated_movies_all(rated) == movies
unrated_movies(rated) == SelectSeqIn(movies, (1..nMovies) \ rated)

----------------------------------------------------------------------------
(* Average-rating ranking (the three fallback returns) *)

\* [r.rating for r in movie.ratings], summed
RECURSIVE SumRatings(_)
SumRatings(rows) ==
    IF rows = {} THEN 0
    ELSE LET i == MinOf(rows) IN ratings[i].rating + SumRatings(rows \ {i})

\* movie_avg_ratings.get(m.id, 0) as the fraction <<numerator, denominator>>
movie_avg(m) ==
    IF RowsOfMovie(m) = {} THEN <<0, 1>>
    ELSE <<SumRatings(RowsOfMovie(m)), Cardinality(RowsOfMovie(m))>>

\* movie_avg_ratings for the movies of a list, as <<movie, numerator, denominator>>
RECURSIVE movie_avg_ratings(_)
movie_avg_ratings(ms) ==
    IF ms = <<>> THEN <<>>
    ELSE <<<<Head(ms)>> \o movie_avg(Head(ms))>> \o movie_avg_ratings(Tail(ms))

\* key(a) > key(b) for two entries <<movie, numerator, denominator>>
\* the order of sorted(...) without reverse=True
KeyLt(a, b) == a[2] * b[3] < b[2] * a[3]
KeyGt(a, b) == a[2] * b[3] > b[2] * a[3]

\* sorted(..., reverse=True) is stable: an entry goes after every entry whose
\* key is not smaller
RECURSIVE InsertDescending(_, _)
InsertDescending(s, x) ==
    IF s = <<>> THEN <<x>>
    ELSE IF KeyGt(x, Head(s)) THEN <<x>> \o s
    ELSE <<Head(s)>> \o InsertDescending(Tail(s), x)
RECURSIVE SortDescending(_, _)
SortDescending(done, todo) ==
    IF todo = <<>> THEN done
    ELSE SortDescending(InsertDescending(done, Head(todo)), Tail(todo))

\* sorted_movies, as movie ids
sorted_movies(unrated) ==
    LET s == SortDescending(<<>>, movie_avg_ratings(unrated))
    IN [i \in 1..Len(s) |-> s[i][1]]

\* return sorted_movies[:5]
PopularFallback(unrated) == Take(sorted_movies(unrated), TopN)

----------------------------------------------------------------------------
(* Collaborative filter *)

\* common_movies
common_movies(ur, cu, o) == RatedKeys(ur, cu) \cap RatedKeys(ur, o)

\* sum(a * b for a, b in zip(xs, ys)) where xs, ys are the ratings of users
\* x and y on the movies of the set common
RECURSIVE SumProducts(_, _, _, _)
SumProducts(ur, x, y, common) ==
    IF common = {} THEN 0
    ELSE LET m == MinOf(common)
         IN ur.val[x][m] * ur.val[y][m] + SumProducts(ur, x, y, common \ {m})

\* for user_id, ratings in user_ratings.items(): the entry of similarities for
\* one other user, <<user, dot_product, (norm_current * norm_other) ** 2>>, or
\* no entry.  similarity = dot_product / (norm_current * norm_other) is kept
\* exact as the pair of the last two components
SimilarityEntry(ur, cu, o) ==
    LET common == common_movies(ur, cu, o)
        nsq == SumProducts(ur, cu, cu, common) * SumProducts(ur, o, o, common)
    IN IF o = cu \/ common = {} \/ nsq = 0 THEN <<>>
       ELSE << <<o, SumProducts(ur, cu, o, common), nsq>> >>

RECURSIVE SimilaritiesOver(_, _, _)
SimilaritiesOver(ur, cu, keys) ==
    IF keys = <<>> THEN <<>>
    ELSE SimilarityEntry(ur, cu, Head(keys)) \o SimilaritiesOver(ur, cu, Tail(keys))
similarities(ur, cu) == SimilaritiesOver(ur, cu, ur.keys)

\* similarity a > similarity b: the ratings are not negative, so similarities
\* compare as their squares do
SimGt(a, b) == a[2] * a[2] * b[3] > b[2] * b[2] * a[3]

\* sorted(similarities.items(), key=lambda x: x[1], reverse=True): every
\* arrangement of the entries in non-increasing similarity (entries whose
\* similarities are equal as real numbers may come out in either order, as
\* their floating-point values may differ in the last place)
SortedBySimilarity(sims) ==
    LET n == Len(sims)
    IN {[i \in 1..n |-> sims[p[i]]] :
          p \in {q \in [1..n -> 1..n] :
                   /\ \A i, j \in 1..n : i < j => q[i] # q[j]
                   /\ \A i \in 1..n : i < n => ~SimGt(sims[q[i + 1]], sims[q[i]])}}

\* top_users = sorted(...)[:3], as user ids
\* one user more than TopK
top_users_wide(sorted) ==
    LET t == Take(sorted, TopK + 1) IN [i \in 1..Len(t) |-> t[i][1]]
top_users(sorted) ==
    LET t == Take(sorted, TopK) IN [i \in 1..Len(t) |-> t[i][1]]

\* unrated_movies_for_user in the order the set is iterated
unrated_movies_for_user(ur, o, rated, desc) ==
    LET S == RatedKeys(ur, o) \ rated
    IN IF desc THEN DescSeq(S) ELSE AscSeq(S)

\* if user_ratings[user_id][movie_id] >= 4.0
Liked(ur, o, m) == ur.val[o][m] >= LikeThreshold

\* the movies user o adds: liked by o and found in unrated_movies
LikedMovies(ur, o, rated, unrated, desc) ==
    LET s == unrated_movies_for_user(ur, o, rated, desc)
    IN SelectSeqIn(s, {m \in Range(s) : Liked(ur, o, m) /\ m \in Range(unrated)})

\* recommended_movies.append(movie) unless already there
RECURSIVE AppendNew(_, _)
\* without the test "movie.id not in [m.id for m in recommended_movies]"
AppendAll(acc, s) == acc \o s
AppendNew(acc, s) ==
    IF s = <<>> THEN acc
    ELSE IF Head(s) \in Range(acc) THEN AppendNew(acc, Tail(s))
    ELSE AppendNew(Append(acc, Head(s)), Tail(s))

RECURSIVE recommended_movies(_, _, _, _, _, _)
recommended_movies(acc, ur, top, rated, unrated, desc) ==
    IF top = <<>> THEN acc
    ELSE recommended_movies(
             AppendNew(acc, LikedMovies(ur, Head(top), rated, unrated, desc)),
             ur, Tail(top), rated, unrated, desc)

----------------------------------------------------------------------------
(* Requests *)

\* a request of the ratings deployment leaves the rest alone
RouteFrame == UNCHANGED <<deployment, svcVars, codecVars, threadVars>>

NoCall == [user |-> 0, path |-> "none", result |-> <<>>, top_users |-> <<>>]
Answer(cu, path, result, top) ==
    [user |-> cu, path |-> path, result |-> result, top_users |-> top]

\* POST /users/
CreateUser ==
    /\ RouteFrame
    /\ deployment = "ratings"
    /\ budget > 0
    /\ nUsers' = nUsers + 1
    /\ budget' = budget - 1
    /\ call' = NoCall
    /\ UNCHANGED <<nMovies, ratings>>

\* POST /movies/ (an authenticated user is needed)
CreateMovie ==
    /\ RouteFrame
    /\ deployment = "ratings"
    /\ budget > 0
    /\ nUsers > 0
    /\ nMovies' = nMovies + 1
    /\ budget' = budget - 1
    /\ call' = NoCall
    /\ UNCHANGED <<nUsers, ratings>>

\* POST /ratings/: movie_id is not checked against the movies table and a
\* user may rate the same movie again
CreateRating(cu, m, v) ==
    /\ RouteFrame
    /\ deployment = "ratings"
    /\ budget > 0
    /\ ratings' = Append(ratings, Rating(cu, m, v))
    /\ budget' = budget - 1
    /\ call' = NoCall
    /\ UNCHANGED <<nUsers, nMovies>>

\* POST /reset/
ResetDatabase ==
    /\ RouteFrame
    /\ deployment = "ratings"
    /\ budget > 0
    /\ nUsers' = 0
    /\ nMovies' = 0
    /\ ratings' = <<>>
    /\ budget' = budget - 1
    /\ call' = NoCall

\* the collaborative part of the route (lines 216-280), for one arrangement
\* of the sorted similarities and one iteration order of the sets
\* without the fallback for an empty collaborative list
CollaborativeOnly(cu, ur, rated, unrated, sorted, desc) ==
    LET top == top_users(sorted)
        rec == recommended_movies(<<>>, ur, top, rated, unrated, desc)
    IN Answer(cu, IF rec = <<>> THEN "norecs" ELSE "collab", Take(rec, TopN), top)
Collaborative(cu, ur, rated, unrated, sorted, desc) ==
    LET top == top_users(sorted)
        rec == recommended_movies(<<>>, ur, top, rated, unrated, desc)
    IN IF rec = <<>>
       THEN Answer(cu, "norecs", PopularFallback(unrated), top)
       ELSE Answer(cu, "collab", Take(rec, TopN), top)

\* GET /recommendations/ for the authenticated user cu; call holds the answer
\* until the next write request
GetRecommendations(cu) ==
    LET ur == user_ratings
        rated == current_user_rated_movie_ids(ur, cu)
        unrated == unrated_movies(rated)
        sims == similarities(ur, cu)
    IN /\ RouteFrame
       /\ deployment = "ratings"
       /\ call = NoCall
       /\ UNCHANGED <<nUsers, nMovies, ratings, budget>>
       /\ IF unrated = <<>>
          THEN call' = Answer(cu, "empty", <<>>, <<>>)
          ELSE IF rated = {}
          THEN call' = Answer(cu, "popular", PopularFallback(unrated), <<>>)
          ELSE IF sims = <<>>
          THEN call' = Answer(cu, "nosimilar", PopularFallback(unrated), <<>>)
          ELSE \E sorted \in SortedBySimilarity(sims), desc \in BOOLEAN :
                 call' = Collaborative(cu, ur, rated, unrated, sorted, desc)

----------------------------------------------------------------------------
(* Part II.  Numbers: exact fractions [n, d] with d > 0, in lowest terms *)

Abs(x) == IF x < 0 THEN -x ELSE x
RECURSIVE Gcd(_, _)
Gcd(a, b) == IF b = 0 THEN a ELSE Gcd(b, a % b)
Frac(n, d) ==
    LET g == Gcd(Abs(n), Abs(d))
        sgn == IF d < 0 THEN -1 ELSE 1
    IN [n |-> sgn * (n \div g), d |-> sgn * (d \div g)]
Whole(k) == [n |-> k, d |-> 1]
Zero == Whole(0)
FAdd(a, b) == Frac(a.n * b.d + b.n * a.d, a.d * b.d)
FSub(a, b) == Frac(a.n * b.d - b.n * a.d, a.d * b.d)
FMul(a, b) == Frac(a.n * b.n, a.d * b.d)
FDiv(a, b) == Frac(a.n * b.d, a.d * b.n)
FLt(a, b) == a.n * b.d < b.n * a.d

RECURSIVE FSum(_)
FSum(s) == IF s = <<>> THEN Zero ELSE FAdd(Head(s), FSum(Tail(s)))

----------------------------------------------------------------------------
(* Vector text: a column value is NULL or a string, the string a sequence of
   tokens; a number token stands for the decimal text of its value *)

Tok(k, x) == [k |-> k, x |-> x]
LB == Tok("[", Zero)
RB == Tok("]", Zero)
COMMA == Tok(",", Zero)
NUM(x) == Tok("num", x)
STR == Tok("str", Zero)       \* a string literal such as "abc"
BAD == Tok("bad", Zero)       \* a character no JSON text starts with

NullText == [null |-> TRUE, toks |-> <<>>]
Text(toks) == [null |-> FALSE, toks |-> toks]

\* a JSON value: a number, a string or a list of values
JNum(x) == [k |-> "num", x |-> x, items |-> <<>>]
JStr == [k |-> "str", x |-> Zero, items |-> <<>>]
JList(items) == [k |-> "list", x |-> Zero, items |-> items]

Failed == [ok |-> FALSE, val |-> JStr, next |-> 0]
Parsed(v, next) == [ok |-> TRUE, val |-> v, next |-> next]

\* the JSON decoder: the value starting at token i, and the place after it
RECURSIVE ParseValue(_, _)
RECURSIVE ParseItems(_, _, _)
ParseValue(toks, i) ==
    IF i > Len(toks) THEN Failed
    ELSE IF toks[i].k = "num" THEN Parsed(JNum(toks[i].x), i + 1)
    ELSE IF toks[i].k = "str" THEN Parsed(JStr, i + 1)
    ELSE IF toks[i].k = "[" THEN
        IF i + 1 <= Len(toks) /\ toks[i + 1].k = "]"
        THEN Parsed(JList(<<>>), i + 2)
        ELSE ParseItems(toks, i + 1, <<>>)
    ELSE Failed
\* the items of a list after its "[" or after a ","
ParseItems(toks, i, acc) ==
    LET v == ParseValue(toks, i)
    IN IF ~v.ok \/ v.next > Len(toks) THEN Failed
       ELSE IF toks[v.next].k = "]" THEN Parsed(JList(Append(acc, v.val)), v.next + 1)
       ELSE IF toks[v.next].k = "," THEN ParseItems(toks, v.next + 1, Append(acc, v.val))
       ELSE Failed

\* json.loads(s): fails on an error and on text after the value
json_loads(toks) ==
    LET v == ParseValue(toks, 1)
    IN IF v.ok /\ v.next = Len(toks) + 1 THEN v ELSE Failed

----------------------------------------------------------------------------
(* Arrays: dims is the shape, data the elements in row-major order; an array
   of strings keeps no data *)

Array(dims, numeric, data) == [dims |-> dims, numeric |-> numeric, data |-> data]
Raised == [dims |-> <<-1>>, numeric |-> FALSE, data |-> <<>>]

DefaultDim == 10
\* np.zeros(10)
Zeros == Array(<<DefaultDim>>, TRUE, [i \in 1..DefaultDim |-> Zero])

RECURSIVE Concat(_)
Concat(ss) == IF ss = <<>> THEN <<>> ELSE Head(ss) \o Concat(Tail(ss))

\* np.array(value): a list whose items do not all have one shape raises
RECURSIVE np_array(_)
np_array(v) ==
    IF v.k = "num" THEN Array(<<>>, TRUE, <<v.x>>)
    ELSE IF v.k = "str" THEN Array(<<>>, FALSE, <<>>)
    ELSE IF v.items = <<>> THEN Array(<<0>>, TRUE, <<>>)
    ELSE LET parts == [i \in 1..Len(v.items) |-> np_array(v.items[i])]
         IN IF \E i \in 1..Len(parts) :
                   parts[i] = Raised \/ parts[i].dims # parts[1].dims
            THEN Raised
            ELSE IF \A i \in 1..Len(parts) : parts[i].numeric
            THEN Array(<<Len(parts)>> \o parts[1].dims, TRUE,
                       Concat([i \in 1..Len(parts) |-> parts[i].data]))
            ELSE Array(<<Len(parts)>> \o parts[1].dims, FALSE, <<>>)

\* RecommendationService._vector_to_array
_vector_to_array(text) ==
    IF text.null THEN Zeros
    ELSE LET v == json_loads(text.toks)
         IN IF ~v.ok THEN Zeros
            ELSE IF np_array(v.val) = Raised THEN Zeros
            ELSE np_array(v.val)

\* json.dumps(array.tolist()) for an array of numbers
RECURSIVE Commas(_)
Commas(ss) ==
    IF ss = <<>> THEN <<>>
    ELSE IF Len(ss) = 1 THEN ss[1]
    ELSE ss[1] \o <<COMMA>> \o Commas(Tail(ss))
RECURSIVE Product(_)
Product(s) == IF s = <<>> THEN 1 ELSE Head(s) * Product(Tail(s))
RECURSIVE json_dumps(_, _)
json_dumps(dims, data) ==
    IF dims = <<>> THEN <<NUM(data[1])>>
    ELSE LET rest == Tail(dims)
             size == Product(rest)
         IN <<LB>>
            \o Commas([i \in 1..Head(dims) |->
                         json_dumps(rest, SubSeq(data, (i - 1) * size + 1, i * size))])
            \o <<RB>>

\* RecommendationService._array_to_vector; its except branch is taken by no
\* array of numbers
_array_to_vector(array) == Text(json_dumps(array.dims, array.data))
----------------------------------------------------------------------------
(* The store as the service reads it *)

\* db.query(User).filter(User.id == user_id).first() finds a user
UserExists(user_id) == user_id \in DOMAIN svcUsers

\* the movies in query order
SvcMovieSeq == AscSeq(DOMAIN svcMovies)

\* db.query(Movie).filter(~Movie.id.in_(watched_movie_ids)).all()
potential_movies(user_id) ==
    SelectSeqIn(SvcMovieSeq, DOMAIN svcMovies \ svcUsers[user_id].watched)

\* [self._vector_to_array(movie.feature_vector) for movie in ms]
DecodeAll(ms) == [i \in 1..Len(ms) |-> _vector_to_array(svcMovies[ms[i]])]

\* bool(user.preference_vector): None and the empty string are falsy
HasPreference(user_id) ==
    /\ ~svcUsers[user_id].preference_vector.null
    /\ svcUsers[user_id].preference_vector.toks # <<>>

----------------------------------------------------------------------------
(* StandardScaler *)

Unfitted == [fitted |-> FALSE, n_features |-> 0, mean |-> <<>>, var |-> <<>>]

\* the rows are usable as a 2-D float array: one-dimensional arrays of numbers
\* of one length that is not 0 (np.array of the rows, then check_array)
IsMatrix(rows) ==
    /\ rows # <<>>
    /\ \A i \in 1..Len(rows) :
          /\ rows[i].numeric
          /\ Len(rows[i].dims) = 1
          /\ rows[i].dims = rows[1].dims
          /\ rows[i].dims[1] > 0

Column(rows, j) == [i \in 1..Len(rows) |-> rows[i].data[j]]
ColumnMean(rows, j) == FDiv(FSum(Column(rows, j)), Whole(Len(rows)))
ColumnVar(rows, j) ==
    LET mu == ColumnMean(rows, j)
    IN FDiv(FSum([i \in 1..Len(rows) |->
                    FMul(FSub(rows[i].data[j], mu), FSub(rows[i].data[j], mu))]),
            Whole(Len(rows)))

\* scaler.fit(movie_vectors): mean_ and var_ of every feature
scaler_fit(rows) ==
    [fitted |-> TRUE,
     n_features |-> rows[1].dims[1],
     mean |-> [j \in 1..rows[1].dims[1] |-> ColumnMean(rows, j)],
     var |-> [j \in 1..rows[1].dims[1] |-> ColumnVar(rows, j)]]

\* scale_ squared: a feature of variance 0 is scaled by 1
ScaleSq(sc, j) == IF sc.var[j] = Zero THEN Whole(1) ELSE sc.var[j]

\* scaler.transform accepts the rows
CanTransform(sc, rows) ==
    IsMatrix(rows) /\ rows[1].dims[1] = sc.n_features

\* the dot product of the transforms of two vectors:
\* sum over j of (a[j] - mean[j]) * (b[j] - mean[j]) / scale[j] ** 2
ScaledDot(sc, a, b) ==
    FSum([j \in 1..sc.n_features |->
            FDiv(FMul(FSub(a.data[j], sc.mean[j]), FSub(b.data[j], sc.mean[j])),
                 ScaleSq(sc, j))])

----------------------------------------------------------------------------
(* Cosine similarity of the scaled vectors *)

\* a similarity is nan, or the number sgn * sqrt(sq)
NaN == [nan |-> TRUE, sgn |-> 0, sq |-> Zero]
Sign(x) == IF x.n > 0 THEN 1 ELSE IF x.n < 0 THEN -1 ELSE 0

\* np.dot(u, m) / (np.linalg.norm(u) * np.linalg.norm(m)): 0.0 / 0.0 is nan
\* (a warning, no exception)
cosine(sc, pref, vec) ==
    LET dot == ScaledDot(sc, pref, vec)
        nsq == FMul(ScaledDot(sc, pref, pref), ScaledDot(sc, vec, vec))
    IN IF nsq = Zero THEN NaN
       ELSE [nan |-> FALSE, sgn |-> Sign(dot), sq |-> FDiv(FMul(dot, dot), nsq)]

\* a < b for two similarities; every comparison with nan is false
SimLt(a, b) ==
    /\ ~a.nan
    /\ ~b.nan
    /\ \/ a.sgn < b.sgn
       \/ a.sgn = 1 /\ b.sgn = 1 /\ FLt(a.sq, b.sq)
       \/ a.sgn = -1 /\ b.sgn = -1 /\ FLt(b.sq, a.sq)

Scored(id, sim) == [id |-> id, similarity |-> sim]

\* similarities.append((movie, similarity)) for every potential movie
similarities_of(sc, pref, ms, rows) ==
    [i \in 1..Len(ms) |-> Scored(ms[i], cosine(sc, pref, rows[i]))]

\* similarities.sort(key=lambda x: x[1], reverse=True), stable
RECURSIVE InsertBySimilarity(_, _)
InsertBySimilarity(s, x) ==
    IF s = <<>> THEN <<x>>
    ELSE IF SimLt(Head(s).similarity, x.similarity) THEN <<x>> \o s
    ELSE <<Head(s)>> \o InsertBySimilarity(Tail(s), x)
RECURSIVE SortBySimilarity(_, _)
SortBySimilarity(done, todo) ==
    IF todo = <<>> THEN done
    ELSE SortBySimilarity(InsertBySimilarity(done, Head(todo)), Tail(todo))

Arrangements(s) ==
    {[i \in 1..Len(s) |-> s[p[i]]] :
       p \in {q \in [1..Len(s) -> 1..Len(s)] :
                \A i, j \in 1..Len(s) : i < j => q[i] # q[j]}}

\* the lists the sort may leave: the stable descending order; when some but
\* not all keys are nan the comparisons are no order and the outcome depends
\* on the steps of the sorting algorithm, so every arrangement is allowed
SortedLists(sims) ==
    IF /\ \E i \in 1..Len(sims) : sims[i].similarity.nan
       /\ \E i \in 1..Len(sims) : ~sims[i].similarity.nan
    THEN Arrangements(sims)
    ELSE {SortBySimilarity(<<>>, sims)}

\* s[:n] for an integer n: a negative n counts from the end
Slice(s, n) ==
    IF n >= 0 THEN Take(s, n)
    ELSE IF Len(s) + n <= 0 THEN <<>>
    ELSE SubSeq(s, 1, Len(s) + n)

----------------------------------------------------------------------------
(* RecommendationService.get_recommendations *)

Outcome(result, sc) == [result |-> result, scaler |-> sc]

\* lines 88-122, once the user, the preference vector and the potential
\* movies are there; an exception anywhere ends in "return []"
Recommend(user_id, n_recommendations, sc) ==
    LET user_preference == _vector_to_array(svcUsers[user_id].preference_vector)
        ms == potential_movies(user_id)
        movie_vectors == DecodeAll(ms)
        canFit == IsMatrix(movie_vectors)
        sc1 == IF sc.fitted THEN sc
               ELSE IF canFit THEN scaler_fit(movie_vectors) ELSE sc
    IN IF ~sc.fitted /\ ~canFit THEN {Outcome(<<>>, sc)}
       ELSE IF ~CanTransform(sc1, movie_vectors) THEN {Outcome(<<>>, sc1)}
       ELSE IF ~CanTransform(sc1, <<user_preference>>) THEN {Outcome(<<>>, sc1)}
       ELSE {Outcome(Slice(sorted, n_recommendations), sc1) :
               sorted \in SortedLists(
                   similarities_of(sc1, user_preference, ms, movie_vectors))}

\* an unknown id treated as a user who has watched nothing and likes everything
get_recommendations_for_anyone(user_id, n_recommendations, sc) ==
    IF ~UserExists(user_id)
    THEN {Outcome([i \in 1..Len(SvcMovieSeq) |-> Scored(SvcMovieSeq[i], Whole(1))], sc)}
    ELSE IF ~HasPreference(user_id) THEN {Outcome(<<>>, sc)}
    ELSE IF potential_movies(user_id) = <<>> THEN {Outcome(<<>>, sc)}
    ELSE Recommend(user_id, n_recommendations, sc)
get_recommendations(user_id, n_recommendations, sc) ==
    IF ~UserExists(user_id) THEN {Outcome(<<>>, sc)}
    ELSE IF ~HasPreference(user_id) THEN {Outcome(<<>>, sc)}
    ELSE IF potential_movies(user_id) = <<>> THEN {Outcome(<<>>, sc)}
    ELSE Recommend(user_id, n_recommendations, sc)

----------------------------------------------------------------------------
(* RecommendationService.update_user_preferences *)

\* np.mean(feature_vectors, axis=0) is defined: arrays of numbers of one shape
CanAverage(arrays) ==
    \A i \in 1..Len(arrays) :
        arrays[i].numeric /\ arrays[i].dims = arrays[1].dims

np_mean(arrays) ==
    Array(arrays[1].dims, TRUE,
          [j \in 1..Len(arrays[1].data) |->
             FDiv(FSum([i \in 1..Len(arrays) |-> arrays[i].data[j]]),
                  Whole(Len(arrays)))])

\* the new preference vector text, or NoUpdate when the call returns False
NoUpdate == [null |-> TRUE, toks |-> <<BAD>>]
\* without the test "if not watched_movies": the zero vector is written
update_user_preferences_unguarded(user_id) ==
    IF ~UserExists(user_id) THEN NoUpdate
    ELSE LET feature_vectors == DecodeAll(AscSeq(svcUsers[user_id].watched))
         IN IF feature_vectors = <<>> THEN _array_to_vector(Zeros)
            ELSE IF ~CanAverage(feature_vectors) THEN NoUpdate
            ELSE _array_to_vector(np_mean(feature_vectors))
update_user_preferences(user_id) ==
    IF ~UserExists(user_id) THEN NoUpdate
    ELSE IF svcUsers[user_id].watched = {} THEN NoUpdate
    ELSE LET feature_vectors == DecodeAll(AscSeq(svcUsers[user_id].watched))
         IN IF ~CanAverage(feature_vectors) THEN NoUpdate
            ELSE _array_to_vector(np_mean(feature_vectors))

----------------------------------------------------------------------------
(* Service calls *)

\* a call of the service leaves the rest alone
ServiceFrame == UNCHANGED <<deployment, routeVars, codecVars, threadVars>>

\* an answer: the value returned (result of get_recommendations, ok of
\* update_user_preferences) and the exception that left the call; both methods
\* end in "except Exception", so none does
NoSvcCall ==
    [op |-> "none", user |-> 0, n |-> 0, result |-> <<>>, ok |-> FALSE,
     raises |-> "none"]
SvcAnswer(op, user_id, n, result, ok) ==
    [op |-> op, user |-> user_id, n |-> n, result |-> result, ok |-> ok,
     raises |-> "none"]

\* recommendation_service.get_recommendations(db, user_id, n_recommendations)
SvcGetRecommendations(user_id, n) ==
    /\ ServiceFrame
    /\ deployment = "vectors"
    /\ svcCall = NoSvcCall
    /\ \E o \in get_recommendations(user_id, n, scaler) :
          /\ scaler' = o.scaler
          /\ svcCall' = SvcAnswer("recommend", user_id, n, o.result, TRUE)
    /\ UNCHANGED <<svcUsers, svcMovies>>

\* recommendation_service.update_user_preferences(db, user_id)
SvcUpdateUserPreferences(user_id) ==
    /\ ServiceFrame
    /\ deployment = "vectors"
    /\ svcCall = NoSvcCall
    /\ LET new == update_user_preferences(user_id)
       IN IF new = NoUpdate
          THEN /\ svcCall' = SvcAnswer("update", user_id, 0, <<>>, FALSE)
               /\ UNCHANGED svcUsers
          ELSE /\ svcCall' = SvcAnswer("update", user_id, 0, <<>>, TRUE)
               /\ svcUsers' = [svcUsers EXCEPT ![user_id].preference_vector = new]
    /\ UNCHANGED <<svcMovies, scaler>>

\* the caller takes the answer
SvcReturn ==
    /\ ServiceFrame
    /\ deployment = "vectors"
    /\ svcCall # NoSvcCall
    /\ svcCall' = NoSvcCall
    /\ UNCHANGED <<svcUsers, svcMovies, scaler>>
----------------------------------------------------------------------------
(* Concurrent calls of get_recommendations on the one recommendation_service:
   the steps of lines 88-97 of each call, interleaved.  A call is at
     "idle"       not started, or returned
     "check"      before "if not self._is_fitted" (line 92)
     "fit"        before "self.scaler.fit(movie_vectors)" (line 93)
     "fitting"    inside scaler.fit
     "set"        before "self._is_fitted = True" (line 94)
     "transform"  before the two scaler.transform calls (lines 96-97)
     "transforming" inside scaler.transform                              *)

NumThreads == 2
Threads == 1..NumThreads

\* the call can reach line 92: lines 65-89 neither return nor raise
ReachesScaling(user_id) ==
    /\ UserExists(user_id)
    /\ HasPreference(user_id)
    /\ potential_movies(user_id) # <<>>
    /\ IsMatrix(DecodeAll(potential_movies(user_id)))

\* a step of a call leaves the store and the rest alone
ThreadFrame ==
    UNCHANGED <<deployment, routeVars, codecVars, svcUsers, svcMovies, svcCall>>

Goto(t, label) == pc' = [pc EXCEPT ![t] = label]

\* lines 65-89
Begin(t, user_id) ==
    /\ pc[t] = "idle"
    /\ ReachesScaling(user_id)
    /\ Goto(t, "check")
    /\ tUser' = [tUser EXCEPT ![t] = user_id]
    /\ ThreadFrame
    /\ UNCHANGED <<scaler, fitCount>>

\* line 92
CheckFitted(t) ==
    /\ pc[t] = "check"
    /\ Goto(t, IF scaler.fitted THEN "transform" ELSE "fit")
    /\ ThreadFrame
    /\ UNCHANGED <<scaler, fitCount, tUser>>

\* line 93, entering fit: StandardScaler.fit first drops the fitted attributes
FitBegin(t) ==
    /\ pc[t] = "fit"
    /\ Goto(t, "fitting")
    /\ scaler' = [Unfitted EXCEPT !.fitted = scaler.fitted]
    /\ fitCount' = fitCount + 1
    /\ ThreadFrame
    /\ UNCHANGED tUser

\* line 93, leaving fit: the attributes are those of this call's movie_vectors
FitEnd(t) ==
    /\ pc[t] = "fitting"
    /\ Goto(t, "set")
    /\ scaler' = [scaler_fit(DecodeAll(potential_movies(tUser[t])))
                    EXCEPT !.fitted = scaler.fitted]
    /\ ThreadFrame
    /\ UNCHANGED <<fitCount, tUser>>

\* line 94
SetFitted(t) ==
    /\ pc[t] = "set"
    /\ Goto(t, "transform")
    /\ scaler' = [scaler EXCEPT !.fitted = TRUE]
    /\ ThreadFrame
    /\ UNCHANGED <<fitCount, tUser>>

\* lines 96-97, entering transform
TransformBegin(t) ==
    /\ pc[t] = "transform"
    /\ Goto(t, "transforming")
    /\ ThreadFrame
    /\ UNCHANGED <<scaler, fitCount, tUser>>

\* lines 96-122: the call returns (with [] when transform raised)
TransformEnd(t) ==
    /\ pc[t] = "transforming"
    /\ Goto(t, "idle")
    /\ ThreadFrame
    /\ UNCHANGED <<scaler, fitCount, tUser>>
----------------------------------------------------------------------------
(* Initial databases of the ratings deployment *)

Seed(u, m, r, b) == [nUsers |-> u, nMovies |-> m, ratings |-> r, budget |-> b]

EmptyDatabase == Seed(0, 0, <<>>, MaxOps)

\* a catalogue larger than one answer; user 1 has rated nothing; the movies'
\* averages are 2.0, 4.5, 3.0 and none
PopularSeed ==
    Seed(3, TopN + 2,
         <<Rating(2, 1, 2), Rating(2, 2, 4), Rating(3, 2, 5), Rating(2, 3, 3)>>,
         0)

\* users 2 and 3 together like more movies than one answer holds; user 2 is
\* the more similar to user 1
WideSeed ==
    Seed(3, TopN + 4,
         <<Rating(1, 1, 4), Rating(1, 2, 3),
           Rating(2, 1, 4), Rating(2, 2, 3),
           Rating(3, 1, 3), Rating(3, 2, 4)>>
            \o [i \in 1..(TopN - 1) |-> Rating(2, i + 2, 4)]
            \o [i \in 1..3 |-> Rating(3, i + TopN + 1, 4)],
         0)

\* user 1 has rated movies 1 and 2; each of the next TopK + 1 users has one
\* of these rating histories (similarity 1 and 24/25 to user 1)
Profiles(o) ==
    { <<Rating(o, 1, 4), Rating(o, 2, 3), Rating(o, 3, 4)>>,
      <<Rating(o, 1, 3), Rating(o, 2, 4), Rating(o, 4, 5)>> }
\* a history with only zero ratings on the shared movies, and one that shares
\* no movie with user 1
ZeroProfile(o) == <<Rating(o, 1, 0), Rating(o, 2, 0), Rating(o, 4, 4)>>
DisjointProfile(o) == <<Rating(o, 3, 3), Rating(o, 4, 4)>>
CollaborativeSeeds ==
    { Seed(TopK + 3, 4,
           <<Rating(1, 1, 4), Rating(1, 2, 3)>> \o p2 \o p3 \o p4 \o p5 \o p6,
           0) :
        p2 \in Profiles(2), p3 \in Profiles(3), p4 \in Profiles(4),
        p5 \in Profiles(5), p6 \in {ZeroProfile(6), DisjointProfile(6)} }

Seeds == {EmptyDatabase, PopularSeed, WideSeed} \cup CollaborativeSeeds

----------------------------------------------------------------------------
(* Initial stores of the vectors deployment *)

\* a feature vector of DefaultDim numbers, all 0 after the third
Vec(a, b, c) ==
    Array(<<DefaultDim>>, TRUE,
          [i \in 1..DefaultDim |->
             Whole(IF i = 1 THEN a ELSE IF i = 2 THEN b ELSE IF i = 3 THEN c ELSE 0)])
Enc(a, b, c) == _array_to_vector(Vec(a, b, c))
\* "[1,2]": a vector of another length
ShortText == Text(<<LB, NUM(Whole(1)), COMMA, NUM(Whole(2)), RB>>)
EmptyText == Text(<<>>)

SvcUser(watched, pref) == [watched |-> watched, preference_vector |-> pref]

\* three movies and two users; user 3 does not exist
ServiceSeeds ==
    { [users  |-> <<SvcUser(w1, p1), SvcUser({3}, p2)>>,
       movies |-> <<Enc(1, 0, 0), f2, f3>>] :
        w1 \in {{}, {1}, {1, 2}, {1, 2, 3}},
        p1 \in {NullText, Enc(1, 0, 0)},
        p2 \in {EmptyText, Enc(0, 1, 0)},
        f2 \in {Enc(0, 1, 0), Enc(0, 0, 0), ShortText},
        f3 \in {Enc(1, 1, 0), Enc(2, 0, 0), NullText} }

\* every user id a caller may pass: the users and one id that is no user's
SvcUserIds == 1..(Len(svcUsers) + 1)

(* Bounds of the calls *)
MaxN == 3                     \* n_recommendations ranges over -MaxN..MaxN

----------------------------------------------------------------------------
(* Specification of the two deployments, one request at a time *)

RouteIdle ==
    /\ nUsers = 0 /\ nMovies = 0 /\ ratings = <<>> /\ budget = 0 /\ call = NoCall
ServiceIdle ==
    /\ svcUsers = <<>> /\ svcMovies = <<>> /\ scaler = Unfitted
    /\ svcCall = NoSvcCall
CodecIdle == vector_str = NullText /\ decoded = Raised
ThreadsIdle == pc = <<>> /\ tUser = <<>> /\ fitCount = 0

RouteInit ==
    /\ deployment = "ratings"
    /\ \E s \in Seeds :
        /\ nUsers = s.nUsers
        /\ nMovies = s.nMovies
        /\ ratings = s.ratings
        /\ budget = s.budget
        /\ call = NoCall

ServiceInit ==
    /\ deployment = "vectors"
    /\ \E s \in ServiceSeeds :
        /\ svcUsers = s.users
        /\ svcMovies = s.movies
    /\ scaler = Unfitted
    /\ svcCall = NoSvcCall

Init ==
    /\ \/ RouteInit /\ ServiceIdle
       \/ ServiceInit /\ RouteIdle
    /\ CodecIdle
    /\ ThreadsIdle

Next ==
    \/ CreateUser
    \/ CreateMovie
    \/ \E cu \in 1..nUsers, m \in MovieIds, v \in RatingValues : CreateRating(cu, m, v)
    \/ ResetDatabase
    \/ \E cu \in 1..nUsers : GetRecommendations(cu)
    \/ \E u \in SvcUserIds, n \in (-MaxN)..MaxN : SvcGetRecommendations(u, n)
    \/ \E u \in SvcUserIds : SvcUpdateUserPreferences(u)
    \/ SvcReturn

Spec == Init /\ [][Next]_vars

----------------------------------------------------------------------------
(* Specification of the vector codec: one text, decoded and encoded again *)

MaxTextLen == 5
Tokens == {LB, RB, COMMA, NUM(Whole(1)), STR, BAD}
RECURSIVE TokenSeqs(_)
TokenSeqs(n) ==
    IF n = 0 THEN {<<>>}
    ELSE LET shorter == TokenSeqs(n - 1)
         IN shorter \cup {Append(s, t) : s \in {x \in shorter : Len(x) = n - 1},
                                         t \in Tokens}
\* every short text, NULL, and texts of DefaultDim numbers
VectorTexts ==
    {Text(s) : s \in TokenSeqs(MaxTextLen)}
      \cup {NullText, Enc(0, 0, 0), Enc(1, 0, 0), Enc(1, 2, 0)}

CodecInit ==
    /\ deployment = "codec"
    /\ vector_str \in VectorTexts
    /\ decoded = Raised
    /\ RouteIdle /\ ServiceIdle /\ ThreadsIdle

CodecFrame == UNCHANGED <<deployment, routeVars, svcVars, threadVars>>

\* array = self._vector_to_array(vector_str)
Decode ==
    /\ CodecFrame
    /\ decoded = Raised
    /\ decoded' = _vector_to_array(vector_str)
    /\ UNCHANGED vector_str

\* vector_str = self._array_to_vector(array), for an array of numbers
Encode ==
    /\ CodecFrame
    /\ decoded # Raised
    /\ decoded.numeric
    /\ vector_str' = _array_to_vector(decoded)
    /\ decoded' = Raised

CodecNext == Decode \/ Encode

SpecCodec == CodecInit /\ [][CodecNext]_vars

----------------------------------------------------------------------------
(* Specification of concurrent calls on a store that does not change *)

ConcurrentSeeds ==
    { [users  |-> <<SvcUser({1}, Enc(1, 0, 0)), SvcUser({3}, Enc(0, 1, 0))>>,
       movies |-> <<Enc(1, 0, 0), f2, Enc(1, 1, 0)>>] :
        f2 \in {Enc(0, 1, 0), Enc(0, 0, 0), ShortText} }

ConcInit ==
    /\ deployment = "vectors"
    /\ \E s \in ConcurrentSeeds :
        /\ svcUsers = s.users
        /\ svcMovies = s.movies
    /\ scaler = Unfitted
    /\ svcCall = NoSvcCall
    /\ pc = [t \in Threads |-> "idle"]
    /\ tUser = [t \in Threads |-> 0]
    /\ fitCount = 0
    /\ RouteIdle /\ CodecIdle

ConcNext ==
    \/ \E t \in Threads, u \in SvcUserIds : Begin(t, u)
    \/ \E t \in Threads : CheckFitted(t)
    \/ \E t \in Threads : FitBegin(t)
    \/ \E t \in Threads : FitEnd(t)
    \/ \E t \in Threads : SetFitted(t)
    \/ \E t \in Threads : TransformBegin(t)
    \/ \E t \in Threads : TransformEnd(t)

SpecConc == ConcInit /\ [][ConcNext]_vars
----------------------------------------------------------------------------
(* What the claims speak of, read off the tables themselves *)

\* the movies user u has a ratings row for
RatedBy(u) == {ratings[i].movie_id : i \in RowsOfUser(u)}
\* the catalogue movies u has not rated
Candidates(u) == (1..nMovies) \ RatedBy(u)
\* u's rating of m: the row written last
LastRating(u, m) == ratings[MaxOf(RowsOfUser(u) \cap RowsOfMovie(m))].rating

\* a movie's mean rating exceeds another's (no rating counts as mean 0)
MeanSum(m) ==
    SumSeq([i \in 1..Len(ratings) |->
              IF ratings[i].movie_id = m THEN ratings[i].rating ELSE 0])
MeanCount(m) == IF RowsOfMovie(m) = {} THEN 1 ELSE Cardinality(RowsOfMovie(m))
MeanGt(a, b) == MeanSum(a) * MeanCount(b) > MeanSum(b) * MeanCount(a)

NoRepeats(s) == \A i, j \in 1..Len(s) : i # j => s[i] # s[j]
MinNat(a, b) == IF a <= b THEN a ELSE b

\* res is the first TopN of the candidates cands in non-increasing mean rating
IsAverageRanking(res, cands) ==
    /\ Len(res) = MinNat(TopN, Cardinality(cands))
    /\ Range(res) \subseteq cands
    /\ NoRepeats(res)
    /\ \A i, j \in 1..Len(res) : i < j => ~MeanGt(res[j], res[i])
    /\ \A c \in cands \ Range(res) : \A r \in Range(res) : ~MeanGt(c, r)

\* cosine similarity of u and o over the movies both rated, as the exact pair
\* <<dot, product of the squared norms>>
SharedMovies(u, o) == RatedBy(u) \cap RatedBy(o)
CosDot(u, o) ==
    SumSeq([m \in MovieIds |->
              IF m \in SharedMovies(u, o) THEN LastRating(u, m) * LastRating(o, m)
              ELSE 0])
CosNormSq(x, u, o) ==
    SumSeq([m \in MovieIds |->
              IF m \in SharedMovies(u, o) THEN LastRating(x, m) * LastRating(x, m)
              ELSE 0])
CosDefined(u, o) ==
    /\ o # u
    /\ SharedMovies(u, o) # {}
    /\ CosNormSq(u, u, o) # 0
    /\ CosNormSq(o, u, o) # 0
\* o1 is strictly more similar to u than o2 is
MoreSimilar(u, o1, o2) ==
    CosDot(u, o1) * CosDot(u, o1) * CosNormSq(u, u, o2) * CosNormSq(o2, u, o2)
      > CosDot(u, o2) * CosDot(u, o2) * CosNormSq(u, u, o1) * CosNormSq(o1, u, o1)

\* the users with a ratings row
RatingUsersOf == {ratings[i].user_id : i \in 1..Len(ratings)}

Answered == call.user # 0
Recommended == svcCall.op = "recommend"

\* the movies a user of the service has watched
WatchedBy(u) == IF u \in DOMAIN svcUsers THEN svcUsers[u].watched ELSE {}
ResultIds == {svcCall.result[i].id : i \in 1..Len(svcCall.result)}

\* the users with a defined similarity to u
Comparable(u) == {o \in 1..nUsers : CosDefined(u, o)}
\* o rated m at least LikeThreshold
Likes(o, m) == m \in RatedBy(o) /\ LastRating(o, m) >= LikeThreshold
\* the candidates of the answered user that a selected user likes
Yield == {m \in Candidates(call.user) : \E o \in Range(call.top_users) : Likes(o, m)}
\* the first selected user who likes m
FirstContributor(m) ==
    call.top_users[MinOf({k \in 1..Len(call.top_users) : Likes(call.top_users[k], m)})]

----------------------------------------------------------------------------
(* C1: no recommended movie is one the requesting user has already rated (the
   ratings route, on every return path) or watched (the service) *)
C1_NeverRatedOrWatched ==
    /\ Answered => \A i \in 1..Len(call.result) : call.result[i] \notin RatedBy(call.user)
    /\ Recommended => ResultIds \cap WatchedBy(svcCall.user) = {}
\* a collaborative answer for a user who has rated movies of the catalogue
C1_Witness ==
    /\ Answered
    /\ call.path = "collab"
    /\ RatedBy(call.user) \cap (1..nMovies) # {}
    /\ call.result # <<>>

(* C2: an answer is never longer than the requested count N (nothing for
   N <= 0), nor than the number of candidates *)
C2_AtMostN ==
    /\ Answered =>
          /\ Len(call.result) <= TopN
          /\ Len(call.result) <= Cardinality(Candidates(call.user))
    /\ Recommended =>
          /\ Len(svcCall.result) <= (IF svcCall.n > 0 THEN svcCall.n ELSE 0)
          /\ Len(svcCall.result)
                <= Cardinality(DOMAIN svcMovies \ WatchedBy(svcCall.user))

(* C3, as claimed: get_recommendations for an id that is no user's fails with
   UserNotFound *)
C3_FailsWithUserNotFound ==
    (Recommended /\ svcCall.user \notin DOMAIN svcUsers)
        => svcCall.raises = "UserNotFound"
(* C3, amended: get_recommendations for an id that is no user's raises nothing
   and returns the empty list *)
C3_ReturnsEmptyList ==
    (Recommended /\ svcCall.user \notin DOMAIN svcUsers)
        => (svcCall.raises = "none" /\ svcCall.result = <<>>)
\* asked for three recommendations for an id that is no user's, while another
\* user would get some
C3_Witness ==
    /\ Recommended
    /\ svcCall.user \notin DOMAIN svcUsers
    /\ svcCall.n = MaxN
    /\ \E u \in DOMAIN svcUsers : HasPreference(u) /\ potential_movies(u) # <<>>

(* C4: among concurrent calls scaler.fit is entered at most once, and no call
   is inside scaler.transform while another is inside scaler.fit *)
C4_FitOnce ==
    /\ fitCount <= 1
    /\ ~\E t1, t2 \in DOMAIN pc : pc[t1] = "fitting" /\ pc[t2] = "transforming"

(* C5: a text that is not the encoding of DefaultDim numbers decodes to the
   zero vector of length DefaultDim *)
EncodesVector(text) ==
    /\ ~text.null
    /\ Len(text.toks) = 2 * DefaultDim + 1
    /\ text.toks[1] = LB
    /\ text.toks[2 * DefaultDim + 1] = RB
    /\ \A i \in 1..DefaultDim :
          /\ text.toks[2 * i].k = "num"
          /\ i < DefaultDim => text.toks[2 * i + 1] = COMMA
C5_MalformedGivesZeros ==
    (decoded # Raised /\ ~EncodesVector(vector_str)) => decoded = Zeros

(* C6: update_user_preferences returns False and leaves every stored
   preference vector as it was when the user does not exist or has watched
   nothing; when it returns True the user's preference vector has been
   written: it is the mean of the watched movies' vectors *)
IsMeanOfWatched(pref, u) ==
    LET a == _vector_to_array(pref)
        w == AscSeq(svcUsers[u].watched)
    IN /\ ~pref.null
       /\ a.numeric
       /\ \A j \in 1..Len(a.data) :
             FMul(a.data[j], Whole(Len(w)))
               = FSum([i \in 1..Len(w) |-> _vector_to_array(svcMovies[w[i]]).data[j]])
C6_UpdateStep ==
    LET u == svcCall'.user
    IN (svcCall.op = "none" /\ svcCall'.op = "update") =>
          /\ (u \notin DOMAIN svcUsers \/ WatchedBy(u) = {})
                => (~svcCall'.ok /\ svcUsers' = svcUsers)
          /\ svcCall'.ok =>
                /\ u \in DOMAIN svcUsers
                /\ IsMeanOfWatched(svcUsers'[u].preference_vector, u)
                /\ \A o \in DOMAIN svcUsers \ {u} : svcUsers'[o] = svcUsers[o]
C6_UpdateFrame == [][C6_UpdateStep]_vars
\* refused for a user who has a preference vector and has watched nothing
C6_Witness ==
    /\ svcCall.op = "update"
    /\ ~svcCall.ok
    /\ svcCall.user \in DOMAIN svcUsers
    /\ WatchedBy(svcCall.user) = {}
    /\ HasPreference(svcCall.user)

(* C7: for a user without ratings and a catalogue that is not empty the
   answer is the first TopN candidates in non-increasing mean rating: no
   later movie has a greater mean than an earlier one, and no omitted
   candidate a greater mean than a returned one *)
C7_PopularRanking ==
    (Answered /\ RatedBy(call.user) = {} /\ nMovies > 0)
        => IsAverageRanking(call.result, Candidates(call.user))
\* more candidates than TopN, means that differ among the returned movies
C7_Witness ==
    /\ Answered
    /\ RatedBy(call.user) = {}
    /\ Cardinality(Candidates(call.user)) > TopN
    /\ \E i, j \in 1..Len(call.result) : MeanGt(call.result[i], call.result[j])
    /\ \E i \in 1..Len(call.result) : MeanCount(call.result[i]) > 1

(* C8: for a user with ratings the answer is empty exactly when no candidate
   is left; otherwise it is the first TopN movies of the collaborative filter
   when that yields any, and the average-rating ranking of the candidates
   when it yields none or no other user has a defined similarity *)
C8_CollaborativeOrFallback ==
    (Answered /\ RatedBy(call.user) # {}) =>
        /\ call.result = <<>> <=> Candidates(call.user) = {}
        /\ Candidates(call.user) # {} =>
              /\ call.top_users = <<>> <=> Comparable(call.user) = {}
              /\ IF Yield # {}
                 THEN /\ Range(call.result) \subseteq Yield
                      /\ NoRepeats(call.result)
                      /\ Len(call.result) = MinNat(TopN, Cardinality(Yield))
                 ELSE IsAverageRanking(call.result, Candidates(call.user))
\* the collaborative filter yields more than TopN movies
C8_Witness ==
    /\ Answered
    /\ RatedBy(call.user) # {}
    /\ Cardinality(Yield) > TopN
    /\ Len(call.result) = TopN

(* C9: the selected users are at most TopK users with a defined similarity
   (a movie in common, no zero norm), none of the others is more similar than
   a selected one, and every movie of the collaborative list is liked
   (rated >= LikeThreshold) by a selected user *)
C9_FromTopSimilarUsers ==
    (Answered /\ call.path \in {"collab", "norecs"}) =>
        LET top == Range(call.top_users)
        IN /\ NoRepeats(call.top_users)
           /\ Len(call.top_users) = MinNat(TopK, Cardinality(Comparable(call.user)))
           /\ top \subseteq Comparable(call.user)
           /\ \A o \in Comparable(call.user) \ top :
                 \A t \in top : ~MoreSimilar(call.user, o, t)
           /\ call.path = "collab" =>
                 \A i \in 1..Len(call.result) :
                    \E o \in top : Likes(o, call.result[i])
\* a less similar user outside the selection and a user without defined
\* similarity both like a candidate that is not recommended
C9_Witness ==
    /\ Answered
    /\ call.path = "collab"
    /\ \E o \in Comparable(call.user) \ Range(call.top_users) :
          /\ \E t \in Range(call.top_users) : MoreSimilar(call.user, t, o)
          /\ \E m \in Candidates(call.user) \ Range(call.result) : Likes(o, m)
    /\ \E o \in RatingUsersOf \ (Comparable(call.user) \cup {call.user}) :
          \E m \in Candidates(call.user) \ Range(call.result) : Likes(o, m)

(* C10: the collaborative list has no movie twice, a movie first contributed
   by a more similar selected user stands before one first contributed by a
   less similar one, and a movie cut off by TopN has no more similar first
   contributor than a movie that is kept *)
C10_FirstSeenOrder ==
    (Answered /\ call.path = "collab") =>
        /\ NoRepeats(call.result)
        /\ \A i, j \in 1..Len(call.result) :
              MoreSimilar(call.user, FirstContributor(call.result[i]),
                          FirstContributor(call.result[j])) => i < j
        /\ \A m \in Yield \ Range(call.result) :
              \A i \in 1..Len(call.result) :
                 ~MoreSimilar(call.user, FirstContributor(m),
                              FirstContributor(call.result[i]))
\* two kept movies from users of different similarity, a movie cut off, and
\* a movie that two selected users like
C10_Witness ==
    /\ Answered
    /\ call.path = "collab"
    /\ Yield \ Range(call.result) # {}
    /\ \E i, j \in 1..Len(call.result) :
          MoreSimilar(call.user, FirstContributor(call.result[i]),
                      FirstContributor(call.result[j]))

(* C11: in the service's answer a candidate whose standardized feature
   vector, or the user's standardized preference vector, has norm 0 is
   reported with similarity 0; no reported similarity is undefined (nan);
   and the answer is in non-increasing order of similarity *)
ZeroNorm(text) ==
    LET a == _vector_to_array(text) IN ScaledDot(scaler, a, a) = Zero
C11_ZeroNormGivesZero ==
    Recommended =>
        LET res  == svcCall.result
            pref == svcUsers[svcCall.user].preference_vector
        IN /\ \A i \in 1..Len(res) : ~res[i].similarity.nan
           /\ \A i \in 1..Len(res) :
                 (ZeroNorm(pref) \/ ZeroNorm(svcMovies[res[i].id]))
                    => (~res[i].similarity.nan /\ res[i].similarity.sgn = 0)
           /\ \A i, j \in 1..Len(res) :
                 i < j => /\ ~res[i].similarity.nan
                          /\ ~res[j].similarity.nan
                          /\ ~SimLt(res[i].similarity, res[j].similarity)

====
